---------------------------- MODULE Spec2Model ----------------------------
(***************************************************************************)
(* A model of build_backend.py, the PEP 517 build backend of               *)
(* islpy-barvinok.                                                         *)
(*                                                                         *)
(* Three specifications share the module's variables:                      *)
(*   Spec      the three entry points (prepare_metadata_for_build_wheel,   *)
(*             build_wheel, build_sdist) as processes over a file system   *)
(*             that the external build script writes to;                   *)
(*   SpecEnv   the environment _run_build_all hands to the subprocess,     *)
(*             over every ambient environment of a small product;          *)
(*   SpecMeta  _read_project_core_metadata and the PKG-INFO text           *)
(*             build_sdist composes, over descriptor files and READMEs.    *)
(*                                                                         *)
(* Python strings are sequences of atoms.  An atom is one character, or a  *)
(* word that no operation of the code looks into ("Name:", "/cache").      *)
(* Wheel file names are sequences of ASCII codes, so that sorted() and     *)
(* str.startswith() are computed as Python computes them.                  *)
(***************************************************************************)
EXTENDS Integers, Sequences, FiniteSets, TLC

VARIABLES
    environ,       \* os.environ: a function from the names present to values
    scriptExists,  \* os.path.exists(scripts/build_all.sh)
    preFs,         \* the wheel directories as they were when the operation began
    fs,            \* the wheel directories: [exists, files] for each of them
    op,            \* the entry point running
    pc,            \* its position
    tmpRes,        \* temporary directories and files the operation holds
    passedEnv,     \* env= of subprocess.check_call, once it was called
    started,       \* the subprocess was started
    exitCode,      \* its exit status
    scanned,       \* the candidate directories were scanned
    wheels,        \* the list _run_build_all returned
    rbaOutcome,    \* how _run_build_all ended
    outcome,       \* how the entry point ended
    chosen,        \* the wheel the entry point works on
    outKind,       \* what was put into the caller-given output directory
    descState,     \* pyproject.toml: a state of FileStates
    descriptor,    \* its entries
    hasTomllib,    \* import tomllib succeeds (Python 3.11 and later)
    readme,        \* README.md: [exists, readable, text]
    metaPc,        \* the position of build_sdist in making PKG-INFO
    metaResult,    \* what _read_project_core_metadata returned or raised
    pkgInfo        \* pkg_info_content

buildVars == <<environ, scriptExists, preFs, fs, op, pc, tmpRes, passedEnv,
               started, exitCode, scanned, wheels, rbaOutcome, outcome,
               chosen, outKind>>

metaVars == <<descState, descriptor, hasTomllib, readme, metaPc, metaResult,
              pkgInfo>>

vars == <<buildVars, metaVars>>

-----------------------------------------------------------------------------
(* Strings *)

Whitespace == {" ", "\t", "\n", "\r"}

RECURSIVE LStrip(_)
LStrip(s) ==
    IF s # <<>> /\ Head(s) \in Whitespace THEN LStrip(Tail(s)) ELSE s

RECURSIVE RStrip(_)
RStrip(s) ==
    IF s # <<>> /\ s[Len(s)] \in Whitespace
    THEN RStrip(SubSeq(s, 1, Len(s) - 1))
    ELSE s

\* str.strip()
Strip(s) == RStrip(LStrip(s))

\* str.startswith(p)
StartsWith(s, p) == Len(s) >= Len(p) /\ SubSeq(s, 1, Len(p)) = p

\* a < b for two strings given as sequences of code points
RECURSIVE LexLess(_, _)
LexLess(a, b) ==
    IF b = <<>> THEN FALSE
    ELSE IF a = <<>> THEN TRUE
    ELSE IF Head(a) # Head(b) THEN Head(a) < Head(b)
    ELSE LexLess(Tail(a), Tail(b))

-----------------------------------------------------------------------------
(* Wheel files *)

\* "islpy_barvinok-" and "islpy-barvinok-"
PrefixUnderscore == <<105,115,108,112,121,95,98,97,114,118,105,110,111,107,45>>
PrefixHyphen == <<105,115,108,112,121,45,98,97,114,118,105,110,111,107,45>>

\* "islpy-barvinok-2.whl"
WheelHyphen == <<105,115,108,112,121,45,98,97,114,118,105,110,111,107,45,50,46,119,104,108>>
\* "islpy_barvinok-1.whl"
WheelUnderscore == <<105,115,108,112,121,95,98,97,114,118,105,110,111,107,45,49,46,119,104,108>>
\* "barvinok-1.whl"
WheelBarvinok == <<98,97,114,118,105,110,111,107,45,49,46,119,104,108>>
\* "zlib-1.whl"
WheelZlib == <<122,108,105,98,45,49,46,119,104,108>>

\* The *.whl files the build script may leave in a directory.  Other files
\* are not modelled: glob("*.whl") never returns them.
Names == {WheelHyphen, WheelUnderscore, WheelBarvinok, WheelZlib}

\* At most this many wheels in one directory.
MaxPerDir == 2

Repaired == "wheelhouse-repaired"
Plain == "wheelhouse"
Kinds == {Repaired, Plain}

\* The directory tempfile.TemporaryDirectory(prefix="islpy-barvinok-build-")
\* makes, and a BUILD_ROOT the caller supplies.
TempRoot == <<"/tmp/islpy-barvinok-build-x">>
CacheRoot == <<"/cache">>
Roots == {TempRoot, CacheRoot}

Dirs == {<<r, k>> : r \in Roots, k \in Kinds}

NoDir == [exists |-> FALSE, files |-> {}]
EmptyFs == [d \in Dirs |-> NoDir]

\* sorted(): the names of S in increasing order
RECURSIVE SortedNames(_)
SortedNames(S) ==
    IF S = {} THEN <<>>
    ELSE LET least == CHOOSE n \in S : \A m \in S \ {n} : LexLess(n, m)
         IN  <<least>> \o SortedNames(S \ {least})

\* sorted(glob.glob(os.path.join(cand, "*.whl"))) for cand = root/kind.  The
\* paths of one directory differ in their last component only.
SortedGlob(f, root, kind) ==
    LET names == SortedNames(f[<<root, kind>>].files)
    IN  [i \in 1..Len(names) |-> [root |-> root, kind |-> kind, name |-> names[i]]]


-----------------------------------------------------------------------------
(* The environment of the build script: _run_build_all, lines 20-30 *)

\* sys.executable
SysExecutable == <<"/usr/bin/python3">>

\* d[k] = v on a dict
Put(e, k, v) == [x \in DOMAIN e \cup {k} |-> IF x = k THEN v ELSE e[x]]

\* d.pop(k, None) on a dict
Pop(e, k) == [x \in DOMAIN e \ {k} |-> e[x]]

\* A variant of BuildRootMissing that takes a blank BUILD_ROOT for a
\* usable one.
BuildRootAbsent(e) == "BUILD_ROOT" \notin DOMAIN e

\* "BUILD_ROOT" not in env or not env["BUILD_ROOT"].strip()
BuildRootMissing(e) ==
    "BUILD_ROOT" \notin DOMAIN e \/ Strip(e["BUILD_ROOT"]) = <<>>

\* The env of the subprocess, made from a copy of os.environ.
BuildEnv(e, tmp) ==
    LET e1 == IF BuildRootMissing(e) THEN Put(e, "BUILD_ROOT", tmp) ELSE e
        e2 == Put(e1, "PYTHON_BIN", SysExecutable)
        e3 == Pop(e2, "PYTHONPATH")
    IN  Pop(e3, "PEP517_BUILD_BACKEND")

\* os.environ after _run_build_all: env is os.environ.copy(), so what is
\* assigned to and popped from env does not reach os.environ.
EnvironAfterCall(e, tmp) == e

NoEnv == [x \in {} |-> <<>>]

-----------------------------------------------------------------------------
(* Collecting the wheels: _run_build_all, lines 38-60 *)

\* candidate_dirs
CandidateDirs(tmp, buildRoot) ==
    << <<tmp, Repaired>>, <<tmp, Plain>>,
       <<buildRoot, Repaired>>, <<buildRoot, Plain>> >>

\* os.path.isdir(cand); a BUILD_ROOT that names no modelled root has no
\* directories.
IsDir(f, cand) == cand \in Dirs /\ f[cand].exists

\* The loop over candidate_dirs: found is appended for each directory that
\* exists, an empty found appends nothing.
RECURSIVE CollectFrom(_, _)
CollectFrom(f, cands) ==
    IF cands = <<>> THEN <<>>
    ELSE LET cand == Head(cands)
             found == IF IsDir(f, cand)
                      THEN SortedGlob(f, cand[1], cand[2])
                      ELSE <<>>
         IN  found \o CollectFrom(f, Tail(cands))

\* A variant of CollectWheels that scans the temporary root only.
CollectWheelsTempOnly(f, tmp, env) ==
    CollectFrom(f, << <<tmp, Repaired>>, <<tmp, Plain>> >>)

\* wheels, after the loop
CollectWheels(f, tmp, env) == CollectFrom(f, CandidateDirs(tmp, env["BUILD_ROOT"]))

-----------------------------------------------------------------------------
(* Choosing the wheel *)

NoWheel == [root |-> <<>>, kind |-> "", name |-> <<>>]

\* os.path.basename(os.path.dirname(w)).endswith("wheelhouse-repaired"): the
\* directory of a collected wheel is one of the two kinds.
InRepairedDir(w) == w.kind = Repaired

\* base.startswith("islpy_barvinok-") or base.startswith("islpy-barvinok-")
NameMatches(w) ==
    StartsWith(w.name, PrefixUnderscore) \/ StartsWith(w.name, PrefixHyphen)

ReversedSeq(seq) == [i \in 1..Len(seq) |-> seq[Len(seq) + 1 - i]]

\* for whl in reversed(seq): the first whl whose name matches, or None
RECURSIVE FirstMatch(_)
FirstMatch(seq) ==
    IF seq = <<>> THEN NoWheel
    ELSE IF NameMatches(Head(seq)) THEN Head(seq)
    ELSE FirstMatch(Tail(seq))

RepairedWheels(ws) == SelectSeq(ws, InRepairedDir)

\* A variant of SearchOrder that searches all wheels first.
SearchOrderAllFirst(ws) == <<ws, RepairedWheels(ws)>>

\* search_order = [repaired_wheels, wheels]
SearchOrder(ws) == <<RepairedWheels(ws), ws>>

\* build_wheel, lines 92-110
SelectWheel(ws) ==
    LET order == SearchOrder(ws)
        inFirst == FirstMatch(ReversedSeq(order[1]))
        inSecond == FirstMatch(ReversedSeq(order[2]))
        repaired == RepairedWheels(ws)
    IN  IF inFirst # NoWheel THEN inFirst
        ELSE IF inSecond # NoWheel THEN inSecond
        ELSE IF repaired # <<>> THEN repaired[Len(repaired)]
        ELSE ws[Len(ws)]

\* prepare_metadata_for_build_wheel, line 67: wheel_path = wheels[-1]
MetadataWheel(ws) == ws[Len(ws)]


-----------------------------------------------------------------------------
(* Temporary resources *)

\* with tempfile.TemporaryDirectory(...) as tmp: the directory is made
EnterTemporaryDirectory(res, name) == res \cup {name}

\* A variant of ExitTemporaryDirectory that leaves the directory behind.
KeepTemporaryDirectory(res, name) == res

\* ... and removed when the with block is left, by return or by exception
ExitTemporaryDirectory(res, name) == res \ {name}

\* tempfile.NamedTemporaryFile("w", delete=False)
CreateNamedTemporaryFile(res, name) == res \cup {name}

\* finally: os.unlink(pkg_info_tmp.name)
UnlinkTemporaryFile(res, name) == res \ {name}

\* What removing the temporary build directory does to the wheel
\* directories: those below it are gone.
RemoveTempTree(f) == [d \in Dirs |-> IF d[1] = TempRoot THEN NoDir ELSE f[d]]

-----------------------------------------------------------------------------
(* The state of the metadata variables while no PKG-INFO is being made *)

NoReadme == [exists |-> FALSE, readable |-> FALSE, text |-> <<>>]
NoResult == [exc |-> "unset",
             meta |-> [t |-> "dict", k |-> <<>>, s |-> <<>>, items |-> <<>>]]

MetaIdle ==
    /\ descState = "absent"
    /\ descriptor = <<>>
    /\ hasTomllib = TRUE
    /\ readme = NoReadme
    /\ metaPc = "off"
    /\ metaResult = NoResult
    /\ pkgInfo = <<>>

-----------------------------------------------------------------------------
(* The entry points *)

\* Every character of s is white space (so is the empty string).
IsBlank(s) == \A i \in 1..Len(s) : s[i] \in Whitespace

\* The caller has supplied no BUILD_ROOT that can be used.
AmbientBuildRootUnusable ==
    "BUILD_ROOT" \notin DOMAIN environ \/ IsBlank(environ["BUILD_ROOT"])

\* A caller-supplied BUILD_ROOT (a CI cache, say) may hold the wheels of an
\* earlier build.
StaleFs ==
    { EmptyFs,
      [EmptyFs EXCEPT ![<<CacheRoot, Plain>>] =
                          [exists |-> TRUE, files |-> {WheelHyphen}]],
      [EmptyFs EXCEPT ![<<CacheRoot, Plain>>] =
                          [exists |-> TRUE, files |-> {WheelUnderscore}],
                      ![<<CacheRoot, Repaired>>] =
                          [exists |-> TRUE, files |-> {WheelBarvinok}]] }

\* The ambient environments of the entry points: BUILD_ROOT absent, blank,
\* or naming the cache.
BuildEnvirons ==
    { [x \in {"HOME"} |-> <<"/root">>],
      [x \in {"HOME", "BUILD_ROOT"} |->
          IF x = "HOME" THEN <<"/root">> ELSE <<" ", " ">>],
      [x \in {"HOME", "BUILD_ROOT"} |->
          IF x = "HOME" THEN <<"/root">> ELSE CacheRoot] }

Init ==
    /\ environ \in BuildEnvirons
    /\ scriptExists \in BOOLEAN
    /\ preFs \in IF AmbientBuildRootUnusable THEN {EmptyFs} ELSE StaleFs
    /\ fs = preFs
    /\ op = "none"
    /\ pc = "idle"
    /\ tmpRes = {}
    /\ passedEnv = NoEnv
    /\ started = FALSE
    /\ exitCode = 0
    /\ scanned = FALSE
    /\ wheels = <<>>
    /\ rbaOutcome = "none"
    /\ outcome = "none"
    /\ chosen = NoWheel
    /\ outKind = "none"
    /\ MetaIdle

\* prepare_metadata_for_build_wheel line 65, build_wheel line 89: the
\* temporary build directory is made.
BeginBuild(o) ==
    /\ pc = "idle"
    /\ o \in {"prepare_metadata_for_build_wheel", "build_wheel"}
    /\ op' = o
    /\ tmpRes' = EnterTemporaryDirectory(tmpRes, "build")
    /\ pc' = "call"
    /\ UNCHANGED <<environ, scriptExists, preFs, fs, passedEnv, started,
                   exitCode, scanned, wheels, rbaOutcome, outcome, chosen,
                   outKind>>
    /\ UNCHANGED metaVars

\* An exception leaves the with block of the build directory: the
\* directory is removed and the entry point ends.
RaiseFromBuild(exc) ==
    /\ outcome' = exc
    /\ tmpRes' = ExitTemporaryDirectory(tmpRes, "build")
    /\ pc' = "done"

\* _run_build_all, lines 20-36: the environment is made, the script is
\* looked for, the subprocess is started.
RunBuildAllStart ==
    /\ pc = "call"
    /\ environ' = EnvironAfterCall(environ, TempRoot)
    /\ IF ~scriptExists
       THEN /\ rbaOutcome' = "FileNotFoundError"
            /\ RaiseFromBuild("FileNotFoundError")
            /\ fs' = RemoveTempTree(fs)
            /\ UNCHANGED <<passedEnv, started>>
       ELSE /\ passedEnv' = BuildEnv(environ, TempRoot)
            /\ started' = TRUE
            /\ pc' = "running"
            /\ UNCHANGED <<rbaOutcome, outcome, tmpRes, fs>>
    /\ UNCHANGED <<scriptExists, preFs, op, exitCode, scanned, wheels,
                   chosen, outKind>>
    /\ UNCHANGED metaVars

\* The directories the build script may write to: those of the BUILD_ROOT it
\* is given and, the script being opaque, those of the temporary root, which
\* _run_build_all scans as well.
ScriptDirs == {d \in Dirs : d[1] = TempRoot \/ d[1] = passedEnv["BUILD_ROOT"]}

\* The build script makes an output directory.
ScriptMkdir(d) ==
    /\ pc = "running"
    /\ d \in ScriptDirs
    /\ ~fs[d].exists
    /\ fs' = [fs EXCEPT ![d] = [exists |-> TRUE, files |-> {}]]
    /\ UNCHANGED <<environ, scriptExists, preFs, op, pc, tmpRes, passedEnv,
                   started, exitCode, scanned, wheels, rbaOutcome, outcome,
                   chosen, outKind>>
    /\ UNCHANGED metaVars

\* The build script leaves a wheel in an output directory.
ScriptWrite(d, n) ==
    /\ pc = "running"
    /\ d \in ScriptDirs
    /\ n \notin fs[d].files
    /\ Cardinality(fs[d].files) < MaxPerDir
    /\ fs' = [fs EXCEPT ![d] = [exists |-> TRUE, files |-> fs[d].files \cup {n}]]
    /\ UNCHANGED <<environ, scriptExists, preFs, op, pc, tmpRes, passedEnv,
                   started, exitCode, scanned, wheels, rbaOutcome, outcome,
                   chosen, outKind>>
    /\ UNCHANGED metaVars

\* _run_build_all, lines 36-60: check_call returns when the script exits,
\* and raises CalledProcessError on a non-zero status; then the candidate
\* directories are scanned.
RunBuildAllFinish(rc) ==
    /\ pc = "running"
    /\ exitCode' = rc
    /\ IF rc # 0
       THEN /\ rbaOutcome' = "CalledProcessError"
            /\ RaiseFromBuild("CalledProcessError")
            /\ fs' = RemoveTempTree(fs)
            /\ UNCHANGED <<scanned, wheels>>
       ELSE /\ scanned' = TRUE
            /\ LET found == CollectWheels(fs, TempRoot, passedEnv)
               IN  IF found = <<>>
                   THEN /\ rbaOutcome' = "RuntimeError: no wheels"
                        /\ RaiseFromBuild("RuntimeError: no wheels")
                        /\ fs' = RemoveTempTree(fs)
                        /\ UNCHANGED wheels
                   ELSE /\ rbaOutcome' = "returned"
                        /\ wheels' = found
                        /\ pc' = "built"
                        /\ UNCHANGED <<outcome, tmpRes, fs>>
    /\ UNCHANGED <<environ, scriptExists, preFs, op, passedEnv, started,
                   chosen, outKind>>
    /\ UNCHANGED metaVars

\* prepare_metadata_for_build_wheel, lines 67-70: the last wheel of the list
\* is unpacked into a second temporary directory.
PrepareUnzip ==
    /\ pc = "built"
    /\ op = "prepare_metadata_for_build_wheel"
    /\ chosen' = MetadataWheel(wheels)
    /\ tmpRes' = EnterTemporaryDirectory(tmpRes, "unzip")
    /\ pc' = "unzipped"
    /\ UNCHANGED <<environ, scriptExists, preFs, fs, op, passedEnv, started,
                   exitCode, scanned, wheels, rbaOutcome, outcome, outKind>>
    /\ UNCHANGED metaVars

\* prepare_metadata_for_build_wheel, lines 71-85: the .dist-info directory
\* of the wheel, if it has one, is copied to metadata_directory; both with
\* blocks are left.
PrepareFinish(hasDistInfo) ==
    /\ pc = "unzipped"
    /\ IF hasDistInfo
       THEN outcome' = "returned" /\ outKind' = "dist-info"
       ELSE outcome' = "RuntimeError: no dist-info" /\ UNCHANGED outKind
    /\ tmpRes' = ExitTemporaryDirectory(
                     ExitTemporaryDirectory(tmpRes, "unzip"), "build")
    /\ fs' = RemoveTempTree(fs)
    /\ pc' = "done"
    /\ UNCHANGED <<environ, scriptExists, preFs, op, passedEnv, started,
                   exitCode, scanned, wheels, rbaOutcome, chosen>>
    /\ UNCHANGED metaVars

\* build_wheel, lines 91-114: the wheel is chosen and copied to
\* wheel_directory; the with block is left.
BuildWheelFinish ==
    /\ pc = "built"
    /\ op = "build_wheel"
    /\ chosen' = SelectWheel(wheels)
    /\ outKind' = "wheel"
    /\ outcome' = "returned"
    /\ tmpRes' = ExitTemporaryDirectory(tmpRes, "build")
    /\ fs' = RemoveTempTree(fs)
    /\ pc' = "done"
    /\ UNCHANGED <<environ, scriptExists, preFs, op, passedEnv, started,
                   exitCode, scanned, wheels, rbaOutcome>>
    /\ UNCHANGED metaVars

\* build_sdist, lines 118-178: the metadata is read, which may raise; the
\* archive is opened in sdist_directory and the project files are added,
\* and an error while adding ends the operation.
SdistOpenArchive(exc) ==
    /\ pc = "idle"
    /\ op' = "build_sdist"
    /\ outKind' = IF exc \in {"none", "OSError"} THEN "sdist" ELSE "none"
    /\ IF exc = "none"
       THEN pc' = "archive" /\ UNCHANGED outcome
       ELSE pc' = "done" /\ outcome' = exc
    /\ UNCHANGED <<environ, scriptExists, preFs, fs, tmpRes, passedEnv,
                   started, exitCode, scanned, wheels, rbaOutcome, chosen>>
    /\ UNCHANGED metaVars

\* build_sdist, line 180: the temporary file of PKG-INFO is made.
SdistCreatePkgInfo ==
    /\ pc = "archive"
    /\ tmpRes' = CreateNamedTemporaryFile(tmpRes, "pkg-info")
    /\ pc' = "pkg-info"
    /\ UNCHANGED <<environ, scriptExists, preFs, fs, op, passedEnv, started,
                   exitCode, scanned, wheels, rbaOutcome, outcome, chosen,
                   outKind>>
    /\ UNCHANGED metaVars

\* build_sdist, lines 181-192: PKG-INFO is written and added to the archive,
\* or one of the two fails; the file is unlinked either way.
SdistWritePkgInfo(ok) ==
    /\ pc = "pkg-info"
    /\ outcome' = IF ok THEN "returned" ELSE "OSError"
    /\ tmpRes' = UnlinkTemporaryFile(tmpRes, "pkg-info")
    /\ pc' = "done"
    /\ UNCHANGED <<environ, scriptExists, preFs, fs, op, passedEnv, started,
                   exitCode, scanned, wheels, rbaOutcome, chosen, outKind>>
    /\ UNCHANGED metaVars

Next ==
    \/ \E o \in {"prepare_metadata_for_build_wheel", "build_wheel"} : BeginBuild(o)
    \/ RunBuildAllStart
    \/ \E d \in Dirs : ScriptMkdir(d)
    \/ \E d \in Dirs, n \in Names : ScriptWrite(d, n)
    \/ \E rc \in {0, 1} : RunBuildAllFinish(rc)
    \/ PrepareUnzip
    \/ \E has \in BOOLEAN : PrepareFinish(has)
    \/ BuildWheelFinish
    \/ \E exc \in {"none", "AttributeError", "UnicodeDecodeError", "OSError"} :
           SdistOpenArchive(exc)
    \/ SdistCreatePkgInfo
    \/ \E ok \in BOOLEAN : SdistWritePkgInfo(ok)

Spec == Init /\ [][Next]_vars


-----------------------------------------------------------------------------
(* Properties of the wheel selection *)

Range(seq) == {seq[i] : i \in 1..Len(seq)}

MatchingIn(ws, kind) == {w \in Range(ws) : w.kind = kind /\ NameMatches(w)}

BuildWheelReturned ==
    op = "build_wheel" /\ pc = "done" /\ outcome = "returned"

\* w has the lexicographically last file name of the wheels in ws
LastNameOf(w, ws) == w \in ws /\ \A v \in ws : ~LexLess(w.name, v.name)

\* C1: when the wheels _run_build_all returned hold a name-matching wheel
\* of a wheelhouse-repaired directory and a name-matching wheel of a
\* wheelhouse directory, build_wheel chooses a name-matching wheel of a
\* wheelhouse-repaired directory.
C1_RepairedPreferred ==
    (/\ BuildWheelReturned
     /\ MatchingIn(wheels, Repaired) # {}
     /\ MatchingIn(wheels, Plain) # {})
    => chosen \in MatchingIn(wheels, Repaired)

\* C1's case, with a matching plain wheel whose file name is later than
\* that of the wheel chosen.
C1_Witness ==
    /\ BuildWheelReturned
    /\ MatchingIn(wheels, Repaired) # {}
    /\ \E w \in MatchingIn(wheels, Plain) : LexLess(chosen.name, w.name)

\* C2: when no wheel's name matches, build_wheel chooses the wheel with the
\* lexicographically last file name among the repaired wheels if there is
\* one, and among all wheels otherwise.
C2_FallbackIsLast ==
    (/\ BuildWheelReturned
     /\ \A w \in Range(wheels) : ~NameMatches(w))
    => LET repaired == {w \in Range(wheels) : w.kind = Repaired}
       IN  IF repaired # {}
           THEN LastNameOf(chosen, repaired)
           ELSE LastNameOf(chosen, Range(wheels))

\* C9: the wheel chosen by the name-matching scan has the lexicographically
\* greatest file name among the matching wheels of the group in which the
\* match is found (the repaired wheels, else all wheels).
C9_GreatestMatching ==
    (/\ BuildWheelReturned
     /\ \E w \in Range(wheels) : NameMatches(w))
    => LET group == IF MatchingIn(wheels, Repaired) # {}
                    THEN MatchingIn(wheels, Repaired)
                    ELSE {w \in Range(wheels) : NameMatches(w)}
       IN  LastNameOf(chosen, group)

\* C10: the wheel prepare_metadata_for_build_wheel unpacks is the wheel
\* build_wheel chooses from the same list.
C10_SameWheel ==
    (op = "prepare_metadata_for_build_wheel" /\ pc = "unzipped")
    => chosen = SelectWheel(wheels)

-----------------------------------------------------------------------------
(* Properties of _run_build_all *)

\* Some candidate directory of the scan holds a wheel.
WheelInCandidates ==
    \E d \in Dirs :
        /\ d[1] \in {TempRoot, passedEnv["BUILD_ROOT"]}
        /\ fs[d].exists
        /\ fs[d].files # {}

\* The step in which check_call returns or raises.
ScriptExits == pc = "running" /\ pc' # "running"

\* How _run_build_all ends, apart from what it ends with when no wheel is
\* found: it returns only if the script exists, the subprocess was started
\* and exited 0 and a wheel was found, and then the list is not empty; the
\* script missing, the subprocess is not started; on a non-zero exit no
\* directory is scanned.
RbaOrder ==
    /\ rbaOutcome = "returned" =>
           scriptExists /\ started /\ exitCode = 0 /\ scanned /\ wheels # <<>>
    /\ rbaOutcome = "FileNotFoundError" => ~scriptExists /\ ~started /\ ~scanned
    /\ rbaOutcome = "CalledProcessError" => started /\ exitCode # 0 /\ ~scanned
    /\ rbaOutcome = "RuntimeError: no wheels" => started /\ exitCode = 0 /\ scanned

-----------------------------------------------------------------------------
(* Properties of the temporary resources *)

-----------------------------------------------------------------------------
(* The environment of the subprocess, over a product of ambient            *)
(* environments                                                            *)

EnvNames == {"BUILD_ROOT", "PYTHON_BIN", "PYTHONPATH", "PEP517_BUILD_BACKEND", "HOME"}

\* The mark of a variable that is not set.
Unset == <<"(unset)">>

\* What the ambient environment may hold for a variable.
EnvOptions(n) ==
    CASE n = "BUILD_ROOT" ->
             {Unset, <<>>, <<" ", "\t">>, CacheRoot, <<" ", "/cache">>}
      [] n = "PYTHON_BIN" -> {Unset, <<"/opt/python3.9/bin/python">>}
      [] n = "PYTHONPATH" -> {Unset, <<"/src">>}
      [] n = "PEP517_BUILD_BACKEND" -> {Unset, <<"build_backend">>}
      [] OTHER -> {Unset, <<"/root">>}

EnvValues == UNION {EnvOptions(n) : n \in EnvNames}

AmbientEnvirons ==
    { [n \in {m \in EnvNames : c[m] # Unset} |-> c[n]] :
        c \in {c \in [EnvNames -> EnvValues] : \A n \in EnvNames : c[n] \in EnvOptions(n)} }

InitEnv ==
    /\ environ \in AmbientEnvirons
    /\ scriptExists \in BOOLEAN
    /\ preFs = EmptyFs
    /\ fs = preFs
    /\ op = "none"
    /\ pc = "idle"
    /\ tmpRes = {}
    /\ passedEnv = NoEnv
    /\ started = FALSE
    /\ exitCode = 0
    /\ scanned = FALSE
    /\ wheels = <<>>
    /\ rbaOutcome = "none"
    /\ outcome = "none"
    /\ chosen = NoWheel
    /\ outKind = "none"
    /\ MetaIdle

NextEnv ==
    \/ \E o \in {"prepare_metadata_for_build_wheel", "build_wheel"} : BeginBuild(o)
    \/ RunBuildAllStart

SpecEnv == InitEnv /\ [][NextEnv]_vars

PassedEnvAsClaimed ==
    /\ "BUILD_ROOT" \in DOMAIN passedEnv
    /\ passedEnv["BUILD_ROOT"] =
           IF AmbientBuildRootUnusable THEN TempRoot ELSE environ["BUILD_ROOT"]
    /\ "PYTHON_BIN" \in DOMAIN passedEnv
    /\ passedEnv["PYTHON_BIN"] = SysExecutable
    /\ "PYTHONPATH" \notin DOMAIN passedEnv
    /\ "PEP517_BUILD_BACKEND" \notin DOMAIN passedEnv
    /\ \A n \in (DOMAIN passedEnv \cup DOMAIN environ) \
                 {"BUILD_ROOT", "PYTHON_BIN", "PYTHONPATH", "PEP517_BUILD_BACKEND"} :
           /\ n \in DOMAIN passedEnv
           /\ n \in DOMAIN environ
           /\ passedEnv[n] = environ[n]

-----------------------------------------------------------------------------
(* Python values of the descriptor *)

\* A str, a list, a dict or None.  The entries of a dict are its values,
\* each with its key in k, in insertion order.
PNone == [t |-> "none", k |-> <<>>, s |-> <<>>, items |-> <<>>]
PStr(a) == [t |-> "str", k |-> <<>>, s |-> a, items |-> <<>>]
PList(xs) == [t |-> "list", k |-> <<>>, s |-> <<>>, items |-> xs]
PDict(kvs) == [t |-> "dict", k |-> <<>>, s |-> <<>>, items |-> kvs]
Keyed(key, v) == [v EXCEPT !.k = key]
Unkeyed(v) == [v EXCEPT !.k = <<>>]

HasKey(d, key) == \E i \in 1..Len(d.items) : d.items[i].k = key

\* d.get(key, default)
DictGet(d, key, default) ==
    IF HasKey(d, key)
    THEN Unkeyed(d.items[CHOOSE i \in 1..Len(d.items) : d.items[i].k = key])
    ELSE default

\* d[key] = v
DictSet(d, key, v) ==
    IF HasKey(d, key)
    THEN PDict([i \in 1..Len(d.items) |->
                   IF d.items[i].k = key THEN Keyed(key, v) ELSE d.items[i]])
    ELSE PDict(Append(d.items, Keyed(key, v)))

\* bool(v)
Truthy(v) ==
    CASE v.t = "str" -> v.s # <<>>
      [] v.t = "none" -> FALSE
      [] OTHER -> v.items # <<>>

\* a or b
PyOr(a, b) == IF Truthy(a) THEN a ELSE b

\* for x in v: the items of a list, the characters of a str, the keys of a
\* dict
Iterate(v) ==
    CASE v.t = "list" -> v.items
      [] v.t = "str" -> [i \in 1..Len(v.s) |-> PStr(<<v.s[i]>>)]
      [] v.t = "dict" -> [i \in 1..Len(v.items) |-> PStr(v.items[i].k)]
      [] OTHER -> <<>>

-----------------------------------------------------------------------------
(* pyproject.toml *)

\* A descriptor is a sequence of entries: a table header, a key with its
\* value on one line, a key with an array written one item per line, or a
\* line that is not TOML.
Header(name) == [t |-> "header", key |-> <<name>>, val |-> PNone]
KV(key, v) == [t |-> "kv", key |-> <<key>>, val |-> v]
KVMultiline(key, v) == [t |-> "kv-multiline", key |-> <<key>>, val |-> v]
Junk == [t |-> "junk", key |-> <<>>, val |-> PNone]

RECURSIVE Concat(_)
Concat(seqs) == IF seqs = <<>> THEN <<>> ELSE Head(seqs) \o Concat(Tail(seqs))

\* sep.join(parts)
RECURSIVE Join(_, _)
Join(sep, parts) ==
    IF parts = <<>> THEN <<>>
    ELSE IF Len(parts) = 1 THEN parts[1]
    ELSE parts[1] \o sep \o Join(sep, Tail(parts))

\* The text of a value in the file.
RECURSIVE TomlText(_)
TomlText(v) ==
    CASE v.t = "str" -> <<"\"">> \o v.s \o <<"\"">>
      [] v.t = "list" ->
             <<"[">> \o Join(<<",", " ">>,
                             [i \in 1..Len(v.items) |-> TomlText(v.items[i])])
                     \o <<"]">>
      [] v.t = "dict" ->
             <<"{">> \o Join(<<",", " ">>,
                             [i \in 1..Len(v.items) |->
                                 v.items[i].k \o <<" ", "=", " ">>
                                     \o TomlText(v.items[i])])
                     \o <<"}">>
      [] OTHER -> <<>>

\* The lines of an entry, each with its line end.
EntryLines(e) ==
    CASE e.t = "header" -> << <<"[">> \o e.key \o <<"]", "\n">> >>
      [] e.t = "kv" -> << e.key \o <<" ", "=", " ">> \o TomlText(e.val) \o <<"\n">> >>
      [] e.t = "kv-multiline" ->
             << e.key \o <<" ", "=", " ", "[", "\n">> >>
             \o [i \in 1..Len(e.val.items) |->
                    <<" ", " ">> \o TomlText(e.val.items[i]) \o <<",", "\n">>]
             \o << <<"]", "\n">> >>
      [] OTHER -> << <<"[", "project", "\n">> >>

\* f.readlines()
FileLines(doc) == Concat([i \in 1..Len(doc) |-> EntryLines(doc[i])])

IsHeader(e) == e.t = "header"

\* The key/value entries of doc[from..] up to the next table header.
RECURSIVE TableBody(_, _)
TableBody(doc, from) ==
    IF from > Len(doc) \/ IsHeader(doc[from]) THEN <<>>
    ELSE <<Keyed(doc[from].key, doc[from].val)>> \o TableBody(doc, from + 1)

\* tomllib.load(f) of a well-formed descriptor: the keys before the first
\* header, the table [project] and its sub-tables [project.<name>].  Other
\* tables are left out: the code reads data["project"] only.
TomlLoad(doc) ==
    LET top == TableBody(doc, 1)
        headers == {i \in 1..Len(doc) : IsHeader(doc[i])}
        projectAt == {i \in headers : doc[i].key = <<"project">>}
        project ==
            IF projectAt = {} THEN <<>>
            ELSE LET at == CHOOSE i \in projectAt : TRUE
                     own == TableBody(doc, at + 1)
                     urlsAt == {i \in headers : doc[i].key = <<"project.urls">>}
                 IN  IF urlsAt = {} THEN <<Keyed(<<"project">>, PDict(own))>>
                     ELSE LET u == CHOOSE i \in urlsAt : TRUE
                          IN  <<Keyed(<<"project">>,
                                      PDict(own \o <<Keyed(<<"urls">>,
                                                           PDict(TableBody(doc, u + 1)))>>))>>
    IN  PDict(top \o project)

WellFormed(doc) == \A i \in 1..Len(doc) : doc[i].t # "junk"


-----------------------------------------------------------------------------
(* The line-oriented readers *)

\* c in s
Contains(s, c) == \E i \in 1..Len(s) : s[i] = c

\* s.strip(c) for a character c
RECURSIVE StripChar(_, _)
StripChar(s, c) ==
    IF s # <<>> /\ Head(s) = c THEN StripChar(Tail(s), c)
    ELSE IF s # <<>> /\ s[Len(s)] = c THEN StripChar(SubSeq(s, 1, Len(s) - 1), c)
    ELSE s

\* s.split("=", 1) of a string that holds "=": what is before and after
\* the first one
FirstEquals(s) == CHOOSE i \in 1..Len(s) : s[i] = "=" /\ \A j \in 1..(i - 1) : s[j] # "="
BeforeEquals(s) == SubSeq(s, 1, FirstEquals(s) - 1)
AfterEquals(s) == SubSeq(s, FirstEquals(s) + 1, Len(s))

\* val.strip().strip('"').strip("'")
Unquote(val) == StripChar(StripChar(Strip(val), "\""), "'")

ProjectHeaderLine == <<"[", "project", "]">>
DefaultName == <<"islpy-barvinok">>
DefaultVersion == <<"0.0.0">>

\* _read_project_version, the loop of lines 202-213
RECURSIVE VersionScan(_, _)
VersionScan(lines, inProject) ==
    IF lines = <<>> THEN DefaultVersion
    ELSE LET line == Head(lines)
         IN  IF Strip(line) = ProjectHeaderLine
             THEN VersionScan(Tail(lines), TRUE)
             ELSE IF /\ inProject
                     /\ StartsWith(Strip(line), <<"version">>)
                     /\ Contains(line, "=")
             THEN Unquote(AfterEquals(line))
             ELSE IF inProject /\ StartsWith(line, <<"[">>) /\ Contains(line, "]")
             THEN DefaultVersion
             ELSE VersionScan(Tail(lines), inProject)

\* The states of the descriptor file: "ok", "absent", "unreadable" (open
\* raises an OSError), "undecodable" (not UTF-8).
FileStates == {"ok", "absent", "unreadable", "undecodable"}

\* _read_project_version: an OSError of open gives the default.
ReadProjectVersion(state, doc) ==
    IF state = "ok" THEN VersionScan(FileLines(doc), FALSE) ELSE DefaultVersion

\* _read_project_core_metadata, the loop of lines 242-253
RECURSIVE FallbackScan(_, _, _)
FallbackScan(lines, inProject, project) ==
    IF lines = <<>> THEN project
    ELSE LET line == Strip(Head(lines))
         IN  IF line = ProjectHeaderLine
             THEN FallbackScan(Tail(lines), TRUE, project)
             ELSE IF inProject /\ StartsWith(line, <<"[">>) /\ Contains(line, "]")
             THEN project
             ELSE IF inProject /\ Contains(line, "=")
             THEN FallbackScan(Tail(lines), inProject,
                               DictSet(project, Strip(BeforeEquals(line)),
                                       PStr(Unquote(AfterEquals(line)))))
             ELSE FallbackScan(Tail(lines), inProject, project)

\* The try block of lines 227-231 ends without an exception: tomllib can be
\* imported, the file opened and its text parsed.
TomllibSucceeds(state, doc, tomllib) ==
    tomllib /\ state = "ok" /\ WellFormed(doc)

\* data, after lines 226-254
DescriptorData(state, doc, tomllib) ==
    IF TomllibSucceeds(state, doc, tomllib)
    THEN TomlLoad(doc)
    ELSE LET lines == IF state = "ok" THEN FileLines(doc) ELSE <<>>
         IN  PDict(<<Keyed(<<"project">>, FallbackScan(lines, FALSE, PDict(<<>>)))>>)

Raised(exc) == [exc |-> exc, meta |-> PDict(<<>>)]
Returned(meta) == [exc |-> "none", meta |-> meta]

\* author, lines 266-273
FirstAuthor(authors) ==
    IF authors.t = "list" /\ authors.items # <<>>
    THEN LET first == authors.items[1]
         IN  IF first.t = "dict" THEN PyOr(DictGet(first, <<"name">>, PNone), PStr(<<>>))
             ELSE IF first.t = "str" THEN first
             ELSE PStr(<<>>)
    ELSE PStr(<<>>)

\* _read_project_core_metadata: the record it returns, or the exception that
\* leaves it.  In the fallback the text mode readlines() of a file that is
\* not UTF-8 raises UnicodeDecodeError, which except OSError lets through;
\* .get of a value that is no dict raises AttributeError.
ReadProjectCoreMetadata(state, doc, tomllib) ==
    LET data == DescriptorData(state, doc, tomllib)
        project == DictGet(data, <<"project">>, PDict(<<>>))
        name == DictGet(project, <<"name">>, PStr(DefaultName))
        version == DictGet(project, <<"version">>, PStr(ReadProjectVersion(state, doc)))
        summary == DictGet(project, <<"description">>, PStr(<<>>))
        requiresPython == DictGet(project, <<"requires-python">>, PStr(<<>>))
        urls == DictGet(project, <<"urls">>, PDict(<<>>))
        homePage == PyOr(PyOr(DictGet(urls, <<"Homepage">>, PNone),
                              DictGet(urls, <<"Home">>, PNone)),
                         PStr(<<>>))
        author == FirstAuthor(DictGet(project, <<"authors">>, PList(<<>>)))
        classifiers == PyOr(DictGet(project, <<"classifiers">>, PList(<<>>)), PList(<<>>))
    IN  IF ~TomllibSucceeds(state, doc, tomllib) /\ state = "undecodable"
        THEN Raised("UnicodeDecodeError")
        ELSE IF project.t # "dict" THEN Raised("AttributeError")
        ELSE IF urls.t # "dict" THEN Raised("AttributeError")
        ELSE Returned(PDict(<<Keyed(<<"name">>, name),
                              Keyed(<<"version">>, version),
                              Keyed(<<"summary">>, summary),
                              Keyed(<<"home_page">>, homePage),
                              Keyed(<<"author">>, author),
                              Keyed(<<"requires_python">>, requiresPython),
                              Keyed(<<"classifiers">>, classifiers),
                              Keyed(<<"project_urls">>, urls)>>))

-----------------------------------------------------------------------------
(* PKG-INFO *)

\* str(v) in an f-string; of a value that is no str, the text of its
\* literal.
Str(v) == IF v.t = "str" THEN v.s ELSE TomlText(v)

\* README.md: [exists, readable, text].  long_description, lines 136-143
LongDescription(r) ==
    IF r.exists /\ r.readable THEN r.text ELSE <<>>

\* if meta.get(field): pkg_info_lines.append(f"{label} {meta[field]}")
OptionalLine(meta, field, label) ==
    LET v == DictGet(meta, field, PNone)
    IN  IF Truthy(v) THEN << <<label, " ">> \o Str(v) >> ELSE <<>>

\* pkg_info_lines, lines 146-168
PkgInfoLines(meta, longDescription) ==
    LET classifiers == Iterate(DictGet(meta, <<"classifiers">>, PList(<<>>)))
        urls == DictGet(meta, <<"project_urls">>, PDict(<<>>)).items
    IN  << <<"Metadata-Version:", " ", "2.1">> >>
        \o << <<"Name:", " ">> \o Str(DictGet(meta, <<"name">>, PNone)) >>
        \o << <<"Version:", " ">> \o Str(DictGet(meta, <<"version">>, PNone)) >>
        \o OptionalLine(meta, <<"summary">>, "Summary:")
        \o OptionalLine(meta, <<"home_page">>, "Home-page:")
        \o OptionalLine(meta, <<"author">>, "Author:")
        \o OptionalLine(meta, <<"requires_python">>, "Requires-Python:")
        \o << <<"License-File:", " ", "LICENSE">> >>
        \o [i \in 1..Len(classifiers) |-> <<"Classifier:", " ">> \o Str(classifiers[i])]
        \o [i \in 1..Len(urls) |->
               <<"Project-URL:", " ">> \o urls[i].k \o <<",", " ">> \o Str(urls[i])]
        \o (IF longDescription # <<>>
            THEN << <<"Description-Content-Type:", " ", "text/markdown">>,
                    <<>>,
                    longDescription >>
            ELSE <<>>)

\* pkg_info_content, line 170
PkgInfoContent(meta, longDescription) ==
    Join(<<"\n">>, PkgInfoLines(meta, longDescription)) \o <<"\n">>


-----------------------------------------------------------------------------
(* build_sdist making PKG-INFO, over descriptors and READMEs *)

\* At most this many classifiers in a descriptor.
MaxClassifiers == 2

ClassifierPool == <<"A", "B", "C", "D">>

ClassifierLists ==
    {[i \in 1..n |-> PStr(<<ClassifierPool[i]>>)] : n \in 0..MaxClassifiers}

NameOptions == {<<>>, <<KV("name", PStr(<<"f", "o", "o">>))>>}
VersionOptions == {<<>>, <<KV("version", PStr(<<"1.2.3">>))>>}
DescriptionOptions == {<<>>, <<KV("description", PStr(<<"d">>))>>}

AuthorsOptions ==
    { <<>>,
      <<KV("authors", PList(<<PDict(<<Keyed(<<"name">>, PStr(<<"Z">>))>>)>>))>>,
      <<KV("authors", PList(<<PStr(<<"Z">>)>>))>>,
      <<KV("authors", PStr(<<"Z">>))>> }

\* classifiers: absent, on one line, or one item per line
ClassifiersOptions ==
    {<<>>}
    \cup {<<KV("classifiers", PList(c))>> : c \in ClassifierLists}
    \cup {<<KVMultiline("classifiers", PList(c))>> : c \in ClassifierLists \ {<<>>}}

\* urls inside [project]: absent, an inline table, or (not a table) a string
UrlsOptions ==
    { <<>>,
      <<KV("urls", PDict(<<Keyed(<<"Homepage">>, PStr(<<"h">>))>>))>>,
      <<KV("urls", PDict(<<Keyed(<<"Home">>, PStr(<<"g">>)),
                           Keyed(<<"Docs">>, PStr(<<"e">>))>>))>>,
      <<KV("urls", PStr(<<"h">>))>> }

\* [project.urls] after [project], or not
UrlsTableOptions ==
    { <<>>,
      <<Header("project.urls"), KV("Homepage", PStr(<<"h">>))>> }

ProjectTables ==
    { <<Header("project")>> \o n \o v \o d \o a \o c \o u \o t :
        n \in NameOptions, v \in VersionOptions, d \in DescriptionOptions,
        a \in AuthorsOptions, c \in ClassifiersOptions,
        u \in UrlsOptions, t \in UrlsTableOptions }

\* Descriptors: a [project] table (TOML has no table defined twice), project
\* as a string, and two files that are not TOML.
Descriptors ==
    {doc \in ProjectTables :
        ~(\E i \in 1..Len(doc) : doc[i].key = <<"urls">>)
        \/ ~(\E i \in 1..Len(doc) : doc[i].key = <<"project.urls">>)}
    \cup { <<KV("project", PStr(<<"x">>))>>,
           <<Junk, KV("name", PStr(<<"f", "o", "o">>))>>,
           <<Header("project"), KV("name", PStr(<<"f", "o", "o">>)), Junk>> }

Readmes ==
    { NoReadme,
      [exists |-> TRUE, readable |-> FALSE, text |-> <<>>] }
    \cup { [exists |-> TRUE, readable |-> TRUE, text |-> x] :
             x \in { <<>>,
                     <<"h", "i">>,
                     <<"h", "i", "\n">>,
                     <<"h", "i", "\n", "\n">>,
                     <<"Name:", " ", "x", "\n">> } }

BuildIdle ==
    /\ environ = [x \in {"HOME"} |-> <<"/root">>]
    /\ scriptExists = TRUE
    /\ preFs = EmptyFs
    /\ fs = EmptyFs
    /\ op = "build_sdist"
    /\ pc = "idle"
    /\ tmpRes = {}
    /\ passedEnv = NoEnv
    /\ started = FALSE
    /\ exitCode = 0
    /\ scanned = FALSE
    /\ wheels = <<>>
    /\ rbaOutcome = "none"
    /\ outcome = "none"
    /\ chosen = NoWheel
    /\ outKind = "none"

InitMeta ==
    /\ BuildIdle
    /\ descState \in FileStates
    /\ descriptor \in IF descState = "ok" THEN Descriptors ELSE {<<>>}
    /\ hasTomllib \in BOOLEAN
    /\ readme \in Readmes
    /\ metaPc = "start"
    /\ metaResult = NoResult
    /\ pkgInfo = <<>>

\* build_sdist, line 121: meta = _read_project_core_metadata(root)
SdistReadMetadata ==
    /\ metaPc = "start"
    /\ metaResult' = ReadProjectCoreMetadata(descState, descriptor, hasTomllib)
    /\ metaPc' = IF metaResult'.exc = "none" THEN "read" ELSE "raised"
    /\ UNCHANGED <<descState, descriptor, hasTomllib, readme, pkgInfo>>
    /\ UNCHANGED buildVars

\* build_sdist, lines 135-170: the README is read and PKG-INFO composed.
SdistComposePkgInfo ==
    /\ metaPc = "read"
    /\ pkgInfo' = PkgInfoContent(metaResult.meta, LongDescription(readme))
    /\ metaPc' = "composed"
    /\ UNCHANGED <<descState, descriptor, hasTomllib, readme, metaResult>>
    /\ UNCHANGED buildVars

NextMeta ==
    \/ SdistReadMetadata
    \/ SdistComposePkgInfo

SpecMeta == InitMeta /\ [][NextMeta]_vars


-----------------------------------------------------------------------------
(* Properties of the metadata *)

\* The lines of a text: a line end closes a line, and what follows the
\* last line end is a line if it is not empty.
RECURSIVE SplitLines(_, _)
SplitLines(text, line) ==
    IF text = <<>> THEN (IF line = <<>> THEN <<>> ELSE <<line>>)
    ELSE IF Head(text) = "\n" THEN <<line>> \o SplitLines(Tail(text), <<>>)
    ELSE SplitLines(Tail(text), Append(line, Head(text)))

\* The header lines of a metadata document: those before the first empty
\* line, which begins the description.
RECURSIVE HeaderLines(_)
HeaderLines(lines) ==
    IF lines = <<>> \/ Head(lines) = <<>> THEN <<>>
    ELSE <<Head(lines)>> \o HeaderLines(Tail(lines))

LineBegins(line, label) == line # <<>> /\ line[1] = label

RECURSIVE LinesBeginning(_, _)
LinesBeginning(lines, label) ==
    IF lines = <<>> THEN <<>>
    ELSE (IF LineBegins(Head(lines), label) THEN <<Head(lines)>> ELSE <<>>)
         \o LinesBeginning(Tail(lines), label)

\* The classifiers the descriptor lists, as TOML has them.
DeclaredClassifiers ==
    IF descState = "ok" /\ WellFormed(descriptor)
    THEN LET project == DictGet(TomlLoad(descriptor), <<"project">>, PDict(<<>>))
             listed == DictGet(project, <<"classifiers">>, PList(<<>>))
         IN  [i \in 1..Len(listed.items) |-> listed.items[i].s]
    ELSE <<>>

\* C3: the header of PKG-INFO has exactly one line beginning "Name:" and
\* one beginning "Version:", and its "Classifier:" lines are the
\* classifiers the descriptor lists, in the descriptor's order, under both
\* readers of the descriptor.
C3_MetadataLines ==
    (metaPc = "composed" /\ (descState = "ok" => WellFormed(descriptor)))
    => LET head == HeaderLines(SplitLines(pkgInfo, <<>>))
           classifierLines == LinesBeginning(head, "Classifier:")
       IN  /\ Len(LinesBeginning(head, "Name:")) = 1
           /\ Len(LinesBeginning(head, "Version:")) = 1
           /\ [i \in 1..Len(classifierLines) |->
                  SubSeq(classifierLines[i], 3, Len(classifierLines[i]))]
              = DeclaredClassifiers

MetaKeys ==
    { <<"name">>, <<"version">>, <<"summary">>, <<"home_page">>, <<"author">>,
      <<"requires_python">>, <<"classifiers">>, <<"project_urls">> }

\* C4: _read_project_core_metadata never raises: in every state of the
\* descriptor file it returns a record with the eight fields, and with the
\* defaults when there is no descriptor to read.
C4_NeverRaises ==
    metaPc \in {"read", "raised", "composed"} =>
        /\ metaResult.exc = "none"
        /\ \A key \in MetaKeys : HasKey(metaResult.meta, key)
        /\ descState # "ok" =>
               /\ DictGet(metaResult.meta, <<"name">>, PNone) = PStr(DefaultName)
               /\ DictGet(metaResult.meta, <<"version">>, PNone) = PStr(DefaultVersion)
               /\ \A key \in MetaKeys \ {<<"name">>, <<"version">>} :
                      ~Truthy(DictGet(metaResult.meta, key, PNone))

\* C5: PKG-INFO ends with exactly one line end, whatever the README ends
\* with.
C5_OneTrailingLineEnd ==
    metaPc = "composed" =>
        /\ pkgInfo # <<>>
        /\ pkgInfo[Len(pkgInfo)] = "\n"
        /\ Len(pkgInfo) >= 2 => pkgInfo[Len(pkgInfo) - 1] # "\n"

=============================================================================
